---- MODULE Spec2Model ----
(***************************************************************************)
(* Model of react-native-gemma: the chat screen (App.tsx), the model       *)
(* download (downloadModel / checkModelExists), the JS bridge class        *)
(* GemmaInference and the native GemmaModule (Kotlin).                     *)
(*                                                                         *)
(* Spec        the application: mount, probe, download, activate, chat.    *)
(* BridgeSpec  the GemmaInference API driven by arbitrary callers.         *)
(* UnionSpec   either of the two (chosen by the initial state).            *)
(***************************************************************************)
EXTENDS Integers, Sequences, FiniteSets, TLC

\* ------------------------------------------------------------------ bounds
MaxSends == 2       \* presses of Send that start a run of sendMessage
MaxClients == 2     \* concurrent direct callers of GemmaInference (BridgeSpec)
MaxClock == 2       \* Date.now() ranges over 1..MaxClock
MaxEngines == 2     \* engine instances created in one run
MaxBitmaps == 1     \* direct callers pass images while fewer bitmaps are held
ArtifactSize == 2   \* bytes the remote source declares and delivers
MaxBytes == 12      \* byte counts of a progress event range over 0..MaxBytes

\* ------------------------------------------------------- constants and sets
NoError == "none"            \* downloadError === null
NoImage == "none"            \* selectedImage === null / image undefined
NoHandle == 0                \* model == null (Kotlin)

InitTask == 0
SendIds == 1..MaxSends
ClientIds == (MaxSends + 1)..(MaxSends + MaxClients)
TaskIds == {InitTask} \cup SendIds \cup ClientIds

\* Characters of a text: a blank and a letter.
SP == " "
Texts == {<<>>, <<SP>>, <<"a">>}
\* Image paths the picker can return: one whose file exists, one whose file does
\* not (deleted after it was picked).
Images == {"img", "gone"}
StatusCodes == {200, 401, 500}
\* What the user of the chat screen types and picks.
AppTexts == {<<>>, <<"a">>}
AppImages == {"img"}

\* ------------------------------------------------------------ pure helpers
IsPrefix(s, t) == Len(s) <= Len(t) /\ SubSeq(t, 1, Len(s)) = s

RECURSIVE TrimLeft(_)
TrimLeft(s) == IF s # <<>> /\ Head(s) = SP THEN TrimLeft(Tail(s)) ELSE s

RECURSIVE TrimRight(_)
TrimRight(s) ==
    IF s # <<>> /\ s[Len(s)] = SP THEN TrimRight(SubSeq(s, 1, Len(s) - 1)) ELSE s

\* String.prototype.trim
Trim(s) == TrimRight(TrimLeft(s))

\* !s.trim()  (the empty string is falsy)
IsBlank(s) == Trim(s) = <<>>

\* JSON.stringify of one message: an undefined image leaves no key.
EncodeMsg(m) ==
    IF m.image = NoImage
    THEN [id |-> m.id, text |-> m.text, sender |-> m.sender]
    ELSE [id |-> m.id, text |-> m.text, sender |-> m.sender, image |-> m.image]

\* JSON.parse of one message: a missing image key reads back as undefined.
DecodeMsg(e) ==
    [id |-> e.id, text |-> e.text, sender |-> e.sender,
     image |-> IF "image" \in DOMAIN e THEN e.image ELSE NoImage]

Stringify(msgs) == [i \in 1..Len(msgs) |-> EncodeMsg(msgs[i])]
Parse(str) == [i \in 1..Len(str) |-> DecodeMsg(str[i])]

\* ---------------------------------------------------------------- state
VARIABLES
    mode,             \* "app" | "api" | "progress": what drives the model
    env,              \* "any" | "good": remote source and engine behaviour
    disk,             \* "ok" | "failing": whether AsyncStorage calls throw
    \* file system
    dirExists,        \* MODELS_PATH exists
    file,             \* [exists, len]: the file at MODEL_PATH
    \* App.tsx state
    messages, input, selectedImage, loading, modelReady, downloading,
    downloadProgress, bytesWritten, totalBytes, downloadError,
    transfer,         \* "none" | "body": RNFS.downloadFile is writing the body
    events,           \* progress events emitted and not yet handed to the callback
    initPc,           \* position of initModel
    loadPc,           \* position of loadMessages
    sends,            \* sendMessage runs: [pc, updated, input, image]
    now,              \* Date.now()
    storage,          \* AsyncStorage item 'messages': [present, value]
    \* GemmaInference (JS)
    isInitialized, modelPath,
    tasks,            \* calls of GemmaInference methods in progress, by caller
    \* GemmaModule (Kotlin)
    model,            \* private var model: the handle, NoHandle when null
    engines,          \* engine instances created and not closed
    created,          \* number of engine instances created so far
    bitmaps           \* bitmaps decoded and not recycled

fsVars == <<dirExists, file>>
dlVars == <<downloading, downloadProgress, bytesWritten, totalBytes>>
xferVars == <<transfer, events>>
chatVars == <<messages, input, selectedImage, loading, sends, storage>>
jsVars == <<isInitialized, modelPath>>
nativeVars == <<model, engines, created, bitmaps>>
vars == <<mode, env, disk, dirExists, file, messages, input, selectedImage, loading,
          modelReady, downloading, downloadProgress, bytesWritten, totalBytes,
          downloadError, transfer, events, initPc, loadPc, sends, now, storage,
          isInitialized, modelPath, tasks, model, engines, created, bitmaps>>

\* ------------------------------------------------------------- records
\* The value of downloadError: error.message of what was thrown.
Err(kind, code) == [kind |-> kind, code |-> code]
NoErr == Err(NoError, 0)

IdleTask == [op |-> "none", pc |-> "none", prompt |-> <<>>, image |-> NoImage,
             eng |-> NoHandle, res |-> "none"]
IdleSend == [pc |-> "idle", updated |-> <<>>, input |-> <<>>, image |-> NoImage]
\* A run of sendMessage that has returned.
EndedSend == [IdleSend EXCEPT !.pc = "ended"]

Msg(id, text, sender, image) ==
    [id |-> id, text |-> text, sender |-> sender, image |-> image]

\* A message stored by an earlier session.
OldMsg == Msg(0, <<"a">>, "user", NoImage)
\* The text the engine answers with.
Response == <<"r">>

FileStates ==
    {[exists |-> FALSE, len |-> 0]} \cup
    {[exists |-> TRUE, len |-> n] : n \in {0, 1, ArtifactSize}}

Complete(f) == f.exists /\ f.len = ArtifactSize

\* A JS number: a finite one (its integer part is kept), NaN or Infinity.
Num(n) == [kind |-> "number", value |-> n]
NaN == [kind |-> "NaN", value |-> 0]
Infinity == [kind |-> "Infinity", value |-> 0]

\* (res.bytesWritten / res.contentLength) * 100: a division by zero gives NaN
\* for 0 / 0 and Infinity otherwise.
Percent(written, total) ==
    IF total = 0
    THEN IF written = 0 THEN NaN ELSE Infinity
    ELSE Num((written * 100) \div total)

\* A task whose call has settled with `res` (pc "none").
Settled(res) == [IdleTask EXCEPT !.res = res]

\* What stays of a settled call: a direct caller holds the result; sendMessage
\* and initModel only log the error they catch.
Kept(t, res) == IF t \in ClientIds THEN Settled(res) ELSE IdleTask

\* ------------------------------------------------------------- initial states
AppIdle ==
    /\ messages = <<>> /\ input = <<>> /\ selectedImage = NoImage
    /\ loading = FALSE /\ modelReady = FALSE /\ downloading = FALSE
    /\ downloadProgress = Num(0) /\ bytesWritten = 0 /\ totalBytes = 0
    /\ downloadError = NoErr /\ initPc = "unmounted"
    /\ transfer = "none" /\ events = <<>>
    /\ loadPc = "unmounted" /\ sends = [s \in SendIds |-> IdleSend]
    /\ now = 1

BridgeIdle ==
    /\ isInitialized = FALSE /\ modelPath = ""
    /\ tasks = [t \in TaskIds |-> IdleTask]
    /\ model = NoHandle /\ engines = {} /\ created = 0 /\ bitmaps = 0

\* What AsyncStorage may hold when the application starts.
InitialStorage ==
    {[present |-> FALSE, value |-> <<>>],
     [present |-> TRUE, value |-> Stringify(<<OldMsg>>)]}

\* The application starts with the artifact absent or whole.
World ==
    /\ env = "any"
    /\ disk \in {"ok", "failing"}
    /\ file \in {f \in FileStates : f.exists => Complete(f)}
    /\ dirExists \in BOOLEAN
    /\ file.exists => dirExists
    /\ storage \in InitialStorage

Init == mode = "app" /\ World /\ AppIdle /\ BridgeIdle

\* ------------------------------------------------ GemmaInference: call starts
\* The part of a call that runs before its first await, as the caller's task
\* afterwards (pc "none": the call has already settled, with .res). A call of
\* a GemmaModule method leaves the task waiting for the native side (pc n...);
\* the native side answers by settling the promise (pc "back", with .res), and
\* the JS continuation runs as a later step.

\* The task of a generate call that waits at pc.
GenerateAt(pc, prompt, image) ==
    [IdleTask EXCEPT !.op = "generate", !.pc = pc, !.prompt = prompt, !.image = image]

\* Variant: generate testing the prompt without trimming it.
StartGenerateNoTrim(prompt, image) ==
    IF ~isInitialized THEN Settled("notInitialized")
    ELSE IF prompt = <<>> THEN Settled("emptyPrompt")
    ELSE IF image # NoImage
         THEN GenerateAt("imgExists", prompt, image)
         ELSE GenerateAt("nGenCall", prompt, NoImage)

\* GemmaInference.generate up to its first await: RNFS.exists(imagePath) with
\* an image, GemmaModule.generate(prompt) without.
StartGenerate(prompt, image) ==
    IF ~isInitialized THEN Settled("notInitialized")
    ELSE IF IsBlank(prompt) THEN Settled("emptyPrompt")
    ELSE IF image # NoImage
         THEN GenerateAt("imgExists", prompt, image)
         ELSE GenerateAt("nGenCall", prompt, NoImage)

\* GemmaInference.initialize up to its first await (RNFS.exists).
StartInitialize == [IdleTask EXCEPT !.op = "initialize", !.pc = "exists"]

\* Variant: unload without its isInitialized check.
StartUnloadAlwaysNative == [IdleTask EXCEPT !.op = "unload", !.pc = "nUnload"]

\* GemmaInference.unload up to its first await.
StartUnload ==
    IF ~isInitialized THEN Settled("ok")
    ELSE [IdleTask EXCEPT !.op = "unload", !.pc = "nUnload"]

\* ------------------------------------------------ the caller's continuation
\* What the caller of task t does when the call settles with res: initModel
\* (after await GemmaInference.initialize), sendMessage (after await
\* GemmaInference.generate), or nothing (a direct caller).
AiMsg == Msg(now' + 1, Response, "ai", NoImage)

\* Date.now(): the clock never runs backwards.
ReadClock == now' \in now..MaxClock

\* Variant: sendMessage's catch block treating a failed generation like a
\* failed initialization (the error is shown and modelReady is cleared).
ResumeFailureUnreadies(t, res) ==
    /\ IF t \in SendIds /\ res = "ok" THEN ReadClock ELSE now' = now
    /\ modelReady' = IF t \in ClientIds THEN modelReady ELSE res = "ok"
    /\ downloadError' =
         IF t \notin ClientIds /\ res # "ok" THEN Err(res, 0) ELSE downloadError
    /\ initPc' = IF t = InitTask THEN "idle" ELSE initPc
    /\ messages' =
         IF t \in SendIds /\ res = "ok"
         THEN Append(sends[t].updated, AiMsg) ELSE messages
    /\ sends' =
         IF t \in SendIds
         THEN [sends EXCEPT ![t] =
                 IF res = "ok"
                 THEN [IdleSend EXCEPT !.pc = "save2",
                                       !.updated = Append(sends[t].updated, AiMsg)]
                 ELSE EndedSend]
         ELSE sends
    /\ loading' = IF t \in SendIds /\ res # "ok" THEN FALSE ELSE loading
    /\ UNCHANGED <<mode, env, disk, fsVars, xferVars, dlVars, input, selectedImage, loadPc,
                   storage>>

Resume(t, res) ==
    /\ IF t \in SendIds /\ res = "ok" THEN ReadClock ELSE now' = now
    /\ modelReady' = IF t = InitTask THEN res = "ok" ELSE modelReady
    /\ downloadError' =
         IF t = InitTask /\ res # "ok" THEN Err(res, 0) ELSE downloadError
    /\ initPc' = IF t = InitTask THEN "idle" ELSE initPc
    /\ messages' =
         IF t \in SendIds /\ res = "ok"
         THEN Append(sends[t].updated, AiMsg) ELSE messages
    /\ sends' =
         IF t \in SendIds
         THEN [sends EXCEPT ![t] =
                 IF res = "ok"
                 THEN [IdleSend EXCEPT !.pc = "save2",
                                       !.updated = Append(sends[t].updated, AiMsg)]
                 ELSE EndedSend]
         ELSE sends
    /\ loading' = IF t \in SendIds /\ res # "ok" THEN FALSE ELSE loading
    /\ UNCHANGED <<mode, env, disk, fsVars, xferVars, dlVars, input, selectedImage, loadPc,
                   storage>>

appVars == <<messages, input, selectedImage, loading, modelReady, downloadError,
             initPc, loadPc, sends, now, storage, dlVars>>
outerVars == <<mode, env, disk, fsVars, xferVars, appVars>>

\* The promise of task t's native call is settled with res; what the JS side
\* does with it comes in a later step.
Back(t, res) == [tasks EXCEPT ![t].pc = "back", ![t].res = res]

\* ------------------------------------------------ GemmaInference.initialize
\* await RNFS.exists(modelPath) returns: GemmaModule.loadModel is called, or
\* the call fails with the file not found.
InitializeExists(t) ==
    /\ tasks[t].op = "initialize" /\ tasks[t].pc = "exists"
    /\ IF file.exists
       THEN /\ modelPath' = "MODEL_PATH"
            /\ tasks' = [tasks EXCEPT ![t].pc = "nLoadCheck"]
            /\ UNCHANGED <<isInitialized, outerVars>>
       ELSE /\ isInitialized' = FALSE
            /\ tasks' = [tasks EXCEPT ![t] = Kept(t, "notFound")]
            /\ UNCHANGED modelPath
            /\ Resume(t, "notFound")
    /\ UNCHANGED nativeVars

\* Variant: loadModel without its check of the file's length.
LoadModelCheckNoLength(t) ==
    /\ tasks[t].op = "initialize" /\ tasks[t].pc = "nLoadCheck"
    /\ tasks' = IF ~file.exists
                THEN Back(t, "notFound")
                ELSE [tasks EXCEPT ![t].pc = "nLoadCreate"]
    /\ UNCHANGED <<outerVars, jsVars, nativeVars>>

\* GemmaModule.loadModel, the coroutine on the main dispatcher: the checks of
\* the file before the engine is built.
LoadModelCheck(t) ==
    /\ tasks[t].op = "initialize" /\ tasks[t].pc = "nLoadCheck"
    /\ tasks' = IF ~file.exists THEN Back(t, "notFound")
                ELSE IF file.len = 0 THEN Back(t, "empty")
                ELSE [tasks EXCEPT ![t].pc = "nLoadCreate"]
    /\ UNCHANGED <<outerVars, jsVars, nativeVars>>

\* Whether LlmInference.createFromOptions can load the file / can fail on it.
EngineLoads(f) == Complete(f)
EngineMayFail(f) == env = "any" \/ ~Complete(f)

\* GemmaModule.loadModel, on the IO dispatcher: LlmInference.createFromOptions
\* returns a new engine, or throws (the catch block rejects).
LoadModelCreate(t) ==
    /\ tasks[t].op = "initialize" /\ tasks[t].pc = "nLoadCreate"
    /\ \/ /\ EngineLoads(file)
          /\ created' = created + 1
          /\ engines' = engines \cup {created + 1}
          /\ tasks' = [tasks EXCEPT ![t].pc = "nLoadAssign", ![t].eng = created + 1]
       \/ /\ EngineMayFail(file)
          /\ tasks' = Back(t, "engine")
          /\ UNCHANGED <<engines, created>>
    /\ UNCHANGED <<outerVars, jsVars, model, bitmaps>>

\* GemmaModule.loadModel, back on the main dispatcher: the new engine is
\* assigned to `model` and the promise is resolved.
LoadModelAssign(t) ==
    /\ tasks[t].op = "initialize" /\ tasks[t].pc = "nLoadAssign"
    /\ model' = tasks[t].eng
    /\ tasks' = Back(t, "ok")
    /\ UNCHANGED <<outerVars, jsVars, engines, created, bitmaps>>

\* GemmaInference.initialize after await GemmaModule.loadModel: isInitialized
\* is set, or cleared by the catch block, and the call returns or throws.
InitializeReturn(t) ==
    /\ tasks[t].op = "initialize" /\ tasks[t].pc = "back"
    /\ isInitialized' = (tasks[t].res = "ok")
    /\ tasks' = [tasks EXCEPT ![t] = Kept(t, tasks[t].res)]
    /\ Resume(t, tasks[t].res)
    /\ UNCHANGED <<modelPath, nativeVars>>

\* -------------------------------------------------- GemmaInference.generate
\* The image files on the device.
ImageFiles == {"img"}

\* Variant: an existence test that answers true for every path.
ImageExistsAlways(image) == TRUE

\* RNFS.exists(imagePath) / File(imagePath).exists()
ImageExists(image) == image \in ImageFiles

\* await RNFS.exists(imagePath) returns: GemmaModule.generateWithImage is
\* called, or the call fails with the image not found.
GenerateImageExists(t) ==
    /\ tasks[t].op = "generate" /\ tasks[t].pc = "imgExists"
    /\ IF ImageExists(tasks[t].image)
       THEN /\ tasks' = [tasks EXCEPT ![t].pc = "nImgCall"]
            /\ UNCHANGED outerVars
       ELSE /\ tasks' = [tasks EXCEPT ![t] = Kept(t, "imageNotFound")]
            /\ Resume(t, "imageNotFound")
    /\ UNCHANGED <<jsVars, nativeVars>>

\* GemmaModule.generate / generateWithImage, the method body: a null `model`
\* rejects with NO_MODEL, otherwise the coroutine is launched.
GenerateCheck(t) ==
    /\ tasks[t].op = "generate" /\ tasks[t].pc \in {"nGenCall", "nImgCall"}
    /\ tasks' = IF model = NoHandle THEN Back(t, "NO_MODEL")
                ELSE [tasks EXCEPT ![t].pc =
                        IF tasks[t].pc = "nGenCall" THEN "nGen" ELSE "nImgFile"]
    /\ UNCHANGED <<outerVars, jsVars, nativeVars>>

\* GemmaModule.generate, on the IO dispatcher: model!! is read for
\* generateResponse (a null `model` throws, and the catch block rejects).
GenerateDeref(t) ==
    /\ tasks[t].op = "generate" /\ tasks[t].pc = "nGen"
    /\ tasks' = IF model = NoHandle THEN Back(t, "engine")
                ELSE [tasks EXCEPT ![t].pc = "nGenRun", ![t].eng = model]
    /\ UNCHANGED <<outerVars, jsVars, nativeVars>>

\* Whether the engine call of task t may fail: always when the environment is
\* arbitrary, and when the instance it runs on has been closed.
RunMayFail(t) == env = "any" \/ tasks[t].eng \notin engines

\* GemmaModule.generate: generateResponse returns or throws, and the promise is
\* settled.
GenerateRun(t) ==
    /\ tasks[t].op = "generate" /\ tasks[t].pc = "nGenRun"
    /\ \E res \in {"ok", "engine"} :
         /\ res = "engine" => RunMayFail(t)
         /\ tasks' = Back(t, res)
    /\ UNCHANGED <<outerVars, jsVars, nativeVars>>

\* GemmaModule.generateWithImage, the coroutine on the main dispatcher: a
\* missing image file rejects with FILE_NOT_FOUND.
GenerateImageFile(t) ==
    /\ tasks[t].op = "generate" /\ tasks[t].pc = "nImgFile"
    /\ tasks' = IF ImageExists(tasks[t].image)
                THEN [tasks EXCEPT ![t].pc = "nImgDecode"]
                ELSE Back(t, "imageNotFound")
    /\ UNCHANGED <<outerVars, jsVars, nativeVars>>

\* Whether BitmapFactory.decodeFile can return null for a file that exists:
\* what is in the file is the environment's.
DecodeMayFail == env = "any"

\* GemmaModule.generateWithImage, on the IO dispatcher: decodeFile returns a
\* bitmap, or null (INVALID_IMAGE is rejected, no bitmap is held).
GenerateImageDecode(t) ==
    /\ tasks[t].op = "generate" /\ tasks[t].pc = "nImgDecode"
    /\ \/ /\ bitmaps' = bitmaps + 1
          /\ tasks' = [tasks EXCEPT ![t].pc = "nImg"]
       \/ /\ DecodeMayFail
          /\ tasks' = Back(t, "invalidImage")
          /\ UNCHANGED bitmaps
    /\ UNCHANGED <<outerVars, jsVars, model, engines, created>>

\* GemmaModule.generateWithImage, on the IO dispatcher again: model!! is read
\* to open the session (a null `model` throws, and the catch block rejects).
GenerateImageDeref(t) ==
    /\ tasks[t].op = "generate" /\ tasks[t].pc = "nImg"
    /\ tasks' = IF model = NoHandle THEN Back(t, "engine")
                ELSE [tasks EXCEPT ![t].pc = "nImgRun", ![t].eng = model]
    /\ UNCHANGED <<outerVars, jsVars, nativeVars>>

\* GemmaModule.generateWithImage: the session answers, or throws (the catch
\* block rejects).
GenerateImageRun(t) ==
    /\ tasks[t].op = "generate" /\ tasks[t].pc = "nImgRun"
    /\ \/ tasks' = [tasks EXCEPT ![t].pc = "nImgDone"]
       \/ /\ RunMayFail(t)
          /\ tasks' = Back(t, "engine")
    /\ UNCHANGED <<outerVars, jsVars, nativeVars>>

\* GemmaModule.generateWithImage, back on the main dispatcher: the bitmap is
\* recycled and the promise is resolved.
GenerateImageResolve(t) ==
    /\ tasks[t].op = "generate" /\ tasks[t].pc = "nImgDone"
    /\ bitmaps' = bitmaps - 1
    /\ tasks' = Back(t, "ok")
    /\ UNCHANGED <<outerVars, jsVars, model, engines, created>>

\* GemmaInference.generate after await GemmaModule.generate /
\* generateWithImage: the call returns the response or throws.
GenerateReturn(t) ==
    /\ tasks[t].op = "generate" /\ tasks[t].pc = "back"
    /\ tasks' = [tasks EXCEPT ![t] = Kept(t, tasks[t].res)]
    /\ Resume(t, tasks[t].res)
    /\ UNCHANGED <<jsVars, nativeVars>>

\* ---------------------------------------------------- GemmaInference.unload
\* GemmaModule.unloadModel, the coroutine: withContext(IO) { model?.close() }
\* returns, or throws (the catch block rejects).
UnloadClose(t) ==
    /\ tasks[t].op = "unload" /\ tasks[t].pc = "nUnload"
    /\ \/ /\ engines' = engines \ {model}
          /\ tasks' = [tasks EXCEPT ![t].pc = "nUnloadNull"]
       \/ /\ env = "any" /\ model # NoHandle
          /\ tasks' = Back(t, "unloadError")
          /\ UNCHANGED engines
    /\ UNCHANGED <<outerVars, jsVars, model, created, bitmaps>>

\* GemmaModule.unloadModel, back on the main dispatcher: model = null and the
\* promise is resolved.
UnloadNull(t) ==
    /\ tasks[t].op = "unload" /\ tasks[t].pc = "nUnloadNull"
    /\ model' = NoHandle
    /\ tasks' = Back(t, "ok")
    /\ UNCHANGED <<outerVars, jsVars, engines, created, bitmaps>>

\* GemmaInference.unload after await GemmaModule.unloadModel(): isInitialized
\* is cleared and the call returns, or the catch block throws the error on.
UnloadReturn(t) ==
    /\ tasks[t].op = "unload" /\ tasks[t].pc = "back"
    /\ isInitialized' = IF tasks[t].res = "ok" THEN FALSE ELSE isInitialized
    /\ tasks' = [tasks EXCEPT ![t] = Kept(t, tasks[t].res)]
    /\ Resume(t, tasks[t].res)
    /\ UNCHANGED <<modelPath, nativeVars>>

\* The steps of a call in progress.
InitializeStep(t) ==
    \/ InitializeExists(t)
    \/ LoadModelCheck(t)
    \/ LoadModelCreate(t)
    \/ LoadModelAssign(t)
    \/ InitializeReturn(t)

GenerateStep(t) ==
    \/ GenerateImageExists(t)
    \/ GenerateCheck(t)
    \/ GenerateDeref(t)
    \/ GenerateRun(t)
    \/ GenerateImageFile(t)
    \/ GenerateImageDecode(t)
    \/ GenerateImageDeref(t)
    \/ GenerateImageRun(t)
    \/ GenerateImageResolve(t)
    \/ GenerateReturn(t)

UnloadStep(t) ==
    \/ UnloadClose(t)
    \/ UnloadNull(t)
    \/ UnloadReturn(t)

\* ------------------------------------------------------ App.tsx: start-up
\* useEffect: loadMessages() and initModel() are started.
Mount ==
    /\ mode = "app"
    /\ initPc = "unmounted"
    /\ initPc' = "probe"
    /\ loadPc' = "pending"
    /\ UNCHANGED <<mode, env, disk, fsVars, xferVars, dlVars, chatVars, modelReady, downloadError,
                   now, jsVars, tasks, nativeVars>>

\* loadStoredMessages: AsyncStorage.getItem returns (or throws, and [] is
\* returned) and the log is set to what was read.
LoadMessages ==
    /\ loadPc = "pending"
    /\ messages' = IF disk = "ok" /\ storage.present
                   THEN Parse(storage.value) ELSE <<>>
    /\ loadPc' = "done"
    /\ UNCHANGED <<mode, env, disk, fsVars, xferVars, dlVars, input, selectedImage, loading, sends,
                   storage, modelReady, downloadError, initPc, now, jsVars, tasks,
                   nativeVars>>

\* ------------------------------------------------------ App.tsx: initModel
\* Variant: initModel going on to GemmaInference.initialize whatever the probe
\* returned, without downloading.
CheckModelExistsNoDownload ==
    /\ initPc = "probe"
    /\ initPc' = "activate"
    /\ tasks' = [tasks EXCEPT ![InitTask] = StartInitialize]
    /\ UNCHANGED <<dlVars, downloadError>>
    /\ UNCHANGED <<mode, env, disk, fsVars, xferVars, chatVars, modelReady, loadPc, now, jsVars,
                   nativeVars>>

\* Variant: initModel starting handleDownload whatever the probe returned.
CheckModelExistsAlwaysDownloads ==
    /\ initPc = "probe"
    /\ initPc' = "dlDir"
    /\ downloading' = TRUE
    /\ downloadProgress' = Num(0)
    /\ bytesWritten' = 0
    /\ totalBytes' = 0
    /\ downloadError' = NoErr
    /\ UNCHANGED tasks
    /\ UNCHANGED <<mode, env, disk, fsVars, xferVars, chatVars, modelReady, loadPc, now, jsVars,
                   nativeVars>>

\* checkModelExists returns: RNFS.exists(MODEL_PATH), false when it throws.
\* Then either GemmaInference.initialize is called or handleDownload starts.
CheckModelExists ==
    /\ initPc = "probe"
    /\ \E thrown \in BOOLEAN :
         /\ thrown => env = "any"
         /\ IF ~thrown /\ file.exists
            THEN /\ initPc' = "activate"
                 /\ tasks' = [tasks EXCEPT ![InitTask] = StartInitialize]
                 /\ UNCHANGED <<dlVars, downloadError>>
            ELSE /\ initPc' = "dlDir"
                 /\ downloading' = TRUE
                 /\ downloadProgress' = Num(0)
                 /\ bytesWritten' = 0
                 /\ totalBytes' = 0
                 /\ downloadError' = NoErr
                 /\ UNCHANGED tasks
    /\ UNCHANGED <<mode, env, disk, fsVars, xferVars, chatVars, modelReady, loadPc, now, jsVars,
                   nativeVars>>

\* Variant: the catch block starting initModel again by itself.
DownloadFailedRetries(err) ==
    /\ downloadError' = err
    /\ downloading' = FALSE
    /\ initPc' = "probe"

\* The catch block of the download: the error is shown and initModel returns.
DownloadFailed(err) ==
    /\ downloadError' = err
    /\ downloading' = FALSE
    /\ initPc' = "idle"

\* downloadModel: the models directory is created when absent.
DownloadMkdir ==
    /\ initPc = "dlDir"
    /\ \/ /\ dirExists' = TRUE
          /\ initPc' = "dlConnect"
          /\ UNCHANGED <<downloading, downloadError>>
       \/ /\ ~dirExists /\ env = "any"
          /\ DownloadFailed(Err("mkdir", 0))
          /\ UNCHANGED dirExists
    /\ UNCHANGED <<mode, env, disk, file, xferVars, downloadProgress, bytesWritten,
                   totalBytes, chatVars, modelReady, loadPc, now, jsVars, tasks,
                   nativeVars>>

\* RNFS.downloadFile: the source answers. On 200 the destination file is opened
\* (created or truncated) and the body starts; any other status ends the
\* transfer with no byte written, and downloadModel throws on it.
DownloadRespondWith(code) ==
    /\ initPc = "dlConnect"
    /\ code # 200 => env = "any"
    /\ IF code = 200
       THEN /\ file' = [exists |-> TRUE, len |-> 0]
            /\ transfer' = "body"
            /\ initPc' = "dlXfer"
            /\ UNCHANGED <<downloading, downloadError>>
       ELSE /\ DownloadFailed(Err("status", code))
            /\ UNCHANGED <<file, transfer>>
    /\ UNCHANGED <<mode, env, disk, dirExists, events, downloadProgress, bytesWritten,
                   totalBytes, chatVars, modelReady, loadPc, now, jsVars, tasks,
                   nativeVars>>

DownloadRespond == \E code \in StatusCodes : DownloadRespondWith(code)

\* The progress event emitted when `written` bytes of the body are on disk: the
\* running byte count and the length the source declared.
Emitted(written) == [bytesWritten |-> written, contentLength |-> ArtifactSize]

\* The stream of progress events has ended: every event emitted has been handed
\* to the callback. The outcome of the transfer follows the last of them.
StreamEnded == events = <<>>

\* RNFS.downloadFile, the native transfer: one more byte is written to
\* MODEL_PATH and a progress event for it is emitted. The transfer runs on its
\* own, whatever the position of initModel.
TransferWrite ==
    /\ transfer = "body"
    /\ file.len < ArtifactSize
    /\ file' = [file EXCEPT !.len = file.len + 1]
    /\ events' = Append(events, Emitted(file.len + 1))
    /\ UNCHANGED <<mode, env, disk, dirExists, transfer, dlVars, downloadError,
                   initPc, chatVars, modelReady, loadPc, now, jsVars, tasks,
                   nativeVars>>

\* The progress callback with event e: the percentage is derived and the three
\* values are stored, with no test of the event or of the state of the app.
ApplyProgress(e) ==
    /\ bytesWritten' = e.bytesWritten
    /\ totalBytes' = e.contentLength
    /\ downloadProgress' = Percent(e.bytesWritten, e.contentLength)

\* The next progress event reaches the callback handed to downloadModel.
ProgressCallback ==
    /\ events # <<>>
    /\ ApplyProgress(Head(events))
    /\ events' = Tail(events)
    /\ UNCHANGED <<mode, env, disk, fsVars, transfer, downloading, downloadError,
                   initPc, chatVars, modelReady, loadPc, now, jsVars, tasks,
                   nativeVars>>

\* RNFS.downloadFile: the connection fails, before the answer or in the body;
\* the promise rejects.
DownloadNetworkError ==
    /\ initPc \in {"dlConnect", "dlXfer"}
    /\ env = "any"
    /\ initPc = "dlXfer" => transfer = "body" /\ file.len < ArtifactSize /\ StreamEnded
    /\ transfer' = "none"
    /\ DownloadFailed(Err("network", 0))
    /\ UNCHANGED <<mode, env, disk, fsVars, events, downloadProgress, bytesWritten,
                   totalBytes, chatVars, modelReady, loadPc, now, jsVars, tasks,
                   nativeVars>>

\* Variant: handleDownload returning true without awaiting the end of the
\* transfer, which goes on by itself.
DownloadDoneNotAwaited ==
    /\ initPc = "dlXfer"
    /\ downloading' = FALSE
    /\ initPc' = "activate"
    /\ tasks' = [tasks EXCEPT ![InitTask] = StartInitialize]
    /\ UNCHANGED <<mode, env, disk, fsVars, xferVars, downloadProgress, bytesWritten,
                   totalBytes, downloadError, chatVars, modelReady, loadPc, now,
                   jsVars, nativeVars>>

\* Whether the promise of RNFS.downloadFile can resolve now: when the whole body
\* is written, and, the remote source being arbitrary, when the body ends short
\* of the declared length.
TransferEnds == file.len = ArtifactSize \/ env = "any"

\* Variant: handleDownload returning true without clearing the downloading flag.
DownloadDoneKeepsFlag ==
    /\ initPc = "dlXfer"
    /\ transfer = "body" /\ TransferEnds /\ StreamEnded
    /\ transfer' = "none"
    /\ initPc' = "activate"
    /\ tasks' = [tasks EXCEPT ![InitTask] = StartInitialize]
    /\ UNCHANGED <<mode, env, disk, fsVars, events, dlVars, downloadError, chatVars,
                   modelReady, loadPc, now, jsVars, nativeVars>>

\* Variant: the promise of the transfer never settling once the body is written.
DownloadDoneNeverSettles ==
    /\ initPc = "dlXfer"
    /\ transfer = "body" /\ TransferEnds /\ StreamEnded
    /\ UNCHANGED vars

\* The transfer ends with status 200: downloadModel returns true on the status
\* code alone, handleDownload returns true and initModel calls
\* GemmaInference.initialize.
DownloadDone ==
    /\ initPc = "dlXfer"
    /\ transfer = "body" /\ TransferEnds /\ StreamEnded
    /\ transfer' = "none"
    /\ downloading' = FALSE
    /\ initPc' = "activate"
    /\ tasks' = [tasks EXCEPT ![InitTask] = StartInitialize]
    /\ UNCHANGED <<mode, env, disk, fsVars, events, downloadProgress, bytesWritten,
                   totalBytes, downloadError, chatVars, modelReady, loadPc, now,
                   jsVars, nativeVars>>

\* Variant: the retry button is on screen whenever no download is running.
RetryShownUnlessDownloading == ~downloading

\* The retry button of DownloadModal is on screen: the modal is visible and
\* shows its failure branch.
RetryShown == (downloading \/ downloadError # NoErr) /\ ~downloading

\* Variant: retryDownload restarting initModel without clearing the error.
RetryDownloadKeepsError ==
    /\ RetryShown
    /\ initPc = "idle"
    /\ initPc' = "probe"
    /\ \E e \in {env, "good"} : env' = e
    /\ UNCHANGED <<mode, disk, fsVars, xferVars, dlVars, chatVars, modelReady, loadPc, now,
                   jsVars, tasks, nativeVars, downloadError>>

\* Variant: the retry button on screen, and pressed, while initModel is running.
RetryDownloadWhileRunning ==
    /\ ~modelReady
    /\ initPc # "unmounted"
    /\ downloadError' = NoErr
    /\ initPc' = "probe"
    /\ \E e \in {env, "good"} : env' = e
    /\ UNCHANGED <<mode, disk, fsVars, xferVars, dlVars, chatVars, modelReady, loadPc, now,
                   jsVars, tasks, nativeVars>>

\* retryDownload: the error is cleared and initModel is started again. Whether
\* the remote source and the engine behave from here on is the environment's.
\* The error is set as initModel returns, so no run of initModel is in progress
\* while the button is on screen (initPc = "idle").
RetryDownload ==
    /\ RetryShown
    /\ initPc = "idle"
    /\ downloadError' = NoErr
    /\ initPc' = "probe"
    /\ \E e \in {env, "good"} : env' = e
    /\ UNCHANGED <<mode, disk, fsVars, xferVars, dlVars, chatVars, modelReady, loadPc, now,
                   jsVars, tasks, nativeVars>>

\* ------------------------------------------------------ App.tsx: the chat
\* pickImage: the picker returns an image and it becomes the selected one.
PickImage ==
    /\ initPc # "unmounted"
    /\ \E i \in AppImages : i # selectedImage /\ selectedImage' = i
    /\ UNCHANGED <<mode, env, disk, fsVars, xferVars, dlVars, messages, input, loading, sends,
                   storage, modelReady, downloadError, initPc, loadPc, now, jsVars,
                   tasks, nativeVars>>

\* The X of the preview, shown while an image is selected: setSelectedImage(null).
RemoveImage ==
    /\ initPc # "unmounted"
    /\ selectedImage # NoImage
    /\ selectedImage' = NoImage
    /\ UNCHANGED <<mode, env, disk, fsVars, xferVars, dlVars, messages, input, loading, sends,
                   storage, modelReady, downloadError, initPc, loadPc, now, jsVars,
                   tasks, nativeVars>>

\* onChangeText={setInput}: the user edits the text; the field is editable
\* while the model is ready.
ChangeText ==
    /\ initPc # "unmounted"
    /\ modelReady
    /\ \E txt \in AppTexts : txt # input /\ input' = txt
    /\ UNCHANGED <<mode, env, disk, fsVars, xferVars, dlVars, messages, selectedImage, loading,
                   sends, storage, modelReady, downloadError, initPc, loadPc, now,
                   jsVars, tasks, nativeVars>>

\* The send button's disabled prop.
SendDisabled == loading \/ ~modelReady

\* Variant: sendMessage without its readiness check, behind a button that is
\* disabled only while loading.
SendAcceptedNoReady(txt, img) ==
    /\ ~loading
    /\ ~(IsBlank(txt) /\ img = NoImage)

\* Whether a press of the send button, with txt in the input and img selected,
\* starts a run of sendMessage that gets past its two early returns.
SendAccepted(txt, img) ==
    /\ ~SendDisabled
    /\ ~(IsBlank(txt) /\ img = NoImage)
    /\ modelReady

\* The user presses send: sendMessage up to await saveMessages(updatedMessages)
\* appends the user's message, made of the input and the selected image, to
\* the log of this render.
SendMessage(s) ==
    /\ sends[s].pc = "idle"
    /\ \A r \in SendIds : r < s => sends[r].pc # "idle"
    /\ SendAccepted(input, selectedImage)
    /\ ReadClock
    /\ LET updated == Append(messages, Msg(now', input, "user", selectedImage)) IN
         /\ messages' = updated
         /\ sends' = [sends EXCEPT ![s] = [pc |-> "save1", updated |-> updated,
                                           input |-> input, image |-> selectedImage]]
    /\ UNCHANGED <<mode, env, disk, fsVars, xferVars, dlVars, input, selectedImage, loading,
                   storage, modelReady,
                   downloadError, initPc, loadPc, jsVars, tasks, nativeVars>>

\* saveStoredMessages: AsyncStorage.setItem stores the log, or throws (the error
\* is only logged) when the device's storage is failing.
Saved(msgs) ==
    IF disk = "failing" THEN storage
    ELSE [present |-> TRUE, value |-> Stringify(msgs)]

\* sendMessage after the first save: the input is cleared, loading is set and
\* GemmaInference.generate is called with the input and image of the press.
SendGenerate(s) ==
    /\ sends[s].pc = "save1"
    /\ storage' = Saved(sends[s].updated)
    /\ input' = <<>>
    /\ selectedImage' = NoImage
    /\ LET call == StartGenerate(sends[s].input, sends[s].image) IN
       /\ tasks' = [tasks EXCEPT ![s] =
                      IF call.pc = "none" THEN Kept(s, call.res) ELSE call]
       /\ IF call.pc = "none"
          THEN /\ loading' = FALSE
               /\ sends' = [sends EXCEPT ![s] = EndedSend]
          ELSE /\ loading' = TRUE
               /\ sends' = [sends EXCEPT ![s].pc = "gen"]
    /\ UNCHANGED <<mode, env, disk, fsVars, xferVars, dlVars, messages, modelReady,
                   downloadError, initPc, loadPc, now, jsVars, nativeVars>>

\* sendMessage after the second save: finally, loading is cleared.
SendFinish(s) ==
    /\ sends[s].pc = "save2"
    /\ storage' = Saved(sends[s].updated)
    /\ loading' = FALSE
    /\ sends' = [sends EXCEPT ![s] = EndedSend]
    /\ UNCHANGED <<mode, env, disk, fsVars, xferVars, dlVars, messages, input, selectedImage,
                   modelReady, downloadError, initPc, loadPc, now, jsVars, tasks,
                   nativeVars>>

\* ------------------------------------------------------------ specification
Next ==
    \/ Mount
    \/ LoadMessages
    \/ CheckModelExists
    \/ DownloadMkdir
    \/ DownloadRespond
    \/ TransferWrite
    \/ ProgressCallback
    \/ DownloadNetworkError
    \/ DownloadDone
    \/ RetryDownload
    \/ PickImage
    \/ RemoveImage
    \/ ChangeText
    \/ \E s \in SendIds : SendMessage(s) \/ SendGenerate(s) \/ SendFinish(s)
    \/ InitializeStep(InitTask)
    \/ \E s \in SendIds : GenerateStep(s)

Spec == Init /\ [][Next]_vars

\* ------------------------------------------- direct callers of GemmaInference
Calling(op) == {t \in TaskIds : tasks[t].op = op}

\* A caller with no call in progress calls initialize(MODEL_PATH).
CallInitialize(c) ==
    /\ mode = "api"
    /\ tasks[c].pc = "none"
    /\ created + Cardinality(Calling("initialize")) < MaxEngines
    /\ tasks' = [tasks EXCEPT ![c] = StartInitialize]
    /\ UNCHANGED <<outerVars, jsVars, nativeVars>>

\* Calls with an image that may still decode a bitmap.
Decoding ==
    {t \in TaskIds : tasks[t].pc \in {"imgExists", "nImgCall", "nImgFile", "nImgDecode"}}

\* ... calls generate(prompt, imagePath). Calls with an image are made while
\* fewer than MaxBitmaps bitmaps are held or about to be decoded.
CallGenerateWith(c, prompt, image) ==
    /\ mode = "api"
    /\ tasks[c].pc = "none"
    /\ image # NoImage => bitmaps + Cardinality(Decoding) < MaxBitmaps
    /\ tasks' = [tasks EXCEPT ![c] = StartGenerate(prompt, image)]
    /\ UNCHANGED <<outerVars, jsVars, nativeVars>>

CallGenerate(c) ==
    \E prompt \in Texts, image \in Images \cup {NoImage} :
        CallGenerateWith(c, prompt, image)

\* ... calls unload().
CallUnload(c) ==
    /\ mode = "api"
    /\ tasks[c].pc = "none"
    /\ tasks' = [tasks EXCEPT ![c] = StartUnload]
    /\ UNCHANGED <<outerVars, jsVars, nativeVars>>

BridgeInit ==
    /\ mode = "api"
    /\ env = "any" /\ disk = "ok"
    /\ file \in FileStates /\ dirExists = file.exists
    /\ storage = [present |-> FALSE, value |-> <<>>]
    /\ AppIdle /\ BridgeIdle

BridgeNext ==
    \E c \in ClientIds :
        \/ CallInitialize(c)
        \/ CallGenerate(c)
        \/ CallUnload(c)
        \/ InitializeStep(c)
        \/ GenerateStep(c)
        \/ UnloadStep(c)

BridgeSpec == BridgeInit /\ [][BridgeNext]_vars

\* The application, or direct callers of the bridge.
UnionSpec == (Init \/ BridgeInit) /\ [][Next \/ BridgeNext]_vars

\* -------------------------------------------------- the progress callback alone
\* A progress event with the byte counts the transfer reports: the callback
\* derives the percentage and the three values are stored. The total is 0 when
\* the length is unknown, and the count does not exceed a known total.
ProgressEvent(written, total) ==
    /\ mode = "progress"
    /\ total # 0 => written <= total
    /\ ApplyProgress([bytesWritten |-> written, contentLength |-> total])
    /\ UNCHANGED <<mode, env, disk, fsVars, xferVars, downloading, chatVars, modelReady,
                   downloadError, initPc, loadPc, now, jsVars, tasks, nativeVars>>

ProgressInit ==
    /\ mode = "progress"
    /\ env = "any" /\ disk = "ok"
    /\ file = [exists |-> FALSE, len |-> 0] /\ dirExists = TRUE
    /\ storage = [present |-> FALSE, value |-> <<>>]
    /\ AppIdle /\ BridgeIdle

ProgressNext == \E written, total \in 0..MaxBytes : ProgressEvent(written, total)

ProgressSpec == ProgressInit /\ [][ProgressNext]_vars

\* The application with its start-up sequence scheduled: a step of initModel
\* that can run does run (the JS event loop and the native threads keep going);
\* the user's commands and the remote source's failures are under no obligation.
InitModelStep ==
    \/ CheckModelExists
    \/ DownloadMkdir
    \/ DownloadRespond
    \/ TransferWrite
    \/ ProgressCallback
    \/ DownloadDone
    \/ InitializeStep(InitTask)

FairSpec == Spec /\ WF_vars(InitModelStep)

\* ================================================================ properties
\* Calls that GemmaModule has accepted and not yet answered.
NativePcs == {"nGen", "nGenRun", "nImgFile", "nImgDecode", "nImg", "nImgRun", "nImgDone"}
InFlight == {t \in TaskIds : tasks[t].op = "generate" /\ tasks[t].pc \in NativePcs}

\* The persisted log as loadMessages would read it.
StoredLog == IF storage.present THEN Parse(storage.value) ELSE <<>>

\* The readiness state of the session, read off the position of initModel and
\* the flags it sets.
ReadinessState ==
    IF initPc = "unmounted" THEN "Uninitialized"
    ELSE IF initPc = "probe" THEN "CheckingArtifact"
    ELSE IF initPc \in {"dlDir", "dlConnect", "dlXfer"} THEN "Downloading"
    ELSE IF initPc = "activate" THEN "Activating"
    ELSE IF modelReady THEN "Ready"
    ELSE "Failed"

\* The session is Failed: initModel has returned with an error on screen.
Failed == initPc = "idle" /\ ~modelReady /\ downloadError # NoErr

\* ---------------------------------------------------------------------- C1
\* C1: whenever no acquisition is running, a file that the existence probe
\* finds at MODEL_PATH is a complete artifact; in particular a download that
\* failed after writing some bytes leaves no partial file there.
C1_ProbeImpliesComplete == (initPc = "idle" /\ file.exists) => Complete(file)

\* ---------------------------------------------------------------------- C2
\* C2: once the user has retried and the remote source and the engine behave
\* from then on (env = "good"), the session eventually becomes Ready.
C2_RetryRecovers == [](env = "good" => <>modelReady)

\* ---------------------------------------------------------------------- C3
\* C3: at most one engine instance that was created and not yet closed exists,
\* whatever the interleaving of initialize, generate and unload calls.
C3_OneLiveEngine == Cardinality(engines) <= 1

\* ---------------------------------------------------------------------- C4
\* C4: Ready is terminal. From a state with modelReady, every step keeps
\* modelReady, shows no error and no download, and leaves initModel finished
\* with no call of GemmaInference.initialize in progress.
C4_Step ==
    modelReady =>
        /\ modelReady'
        /\ downloadError' = NoErr
        /\ ~downloading'
        /\ initPc' = "idle"
        /\ tasks'[InitTask] = IdleTask

C4_ReadyIsTerminal == [][C4_Step]_vars

\* Ready was reached after a retry, and a send has been answered since.
C4_Witness == modelReady /\ env = "good" /\ Len(messages) >= 2

\* ---------------------------------------------------------------------- C5
\* C5: a generation request is accepted only in Ready. While the session is not
\* Ready no run of sendMessage exists, the engine works for none, the log holds
\* only what was loaded and the persisted log is what the session started with;
\* and generate called while isInitialized is false settles with the
\* not-initialized error without reaching GemmaModule.
C5_NotReady ==
    (mode = "app" /\ ~modelReady) =>
        /\ \A s \in SendIds : sends[s] = IdleSend /\ tasks[s] = IdleTask
        /\ ~loading
        /\ messages \in {<<>>} \cup {Parse(st.value) : st \in InitialStorage}
        /\ storage \in InitialStorage

C5_Call ==
    \A c \in ClientIds, p \in Texts, i \in Images \cup {NoImage} :
        (CallGenerateWith(c, p, i) /\ ~isInitialized) =>
            /\ tasks'[c] = Settled("notInitialized")
            /\ UNCHANGED <<jsVars, nativeVars>>

C5_AcceptedOnlyInReady == []C5_NotReady /\ [][C5_Call]_vars

\* A caller had generate refused for want of initialization, after an engine
\* had been loaded and unloaded again.
C5_Witness ==
    \E c \in ClientIds :
        tasks[c].res = "notInitialized" /\ created > 0 /\ ~isInitialized

\* ---------------------------------------------------------------------- C6
\* C6: at most one generation request is in flight against the engine.
C6_OneInFlight == Cardinality(InFlight) <= 1

\* ---------------------------------------------------------------------- C7
\* C7: the message log is append-only: every step leaves the in-memory log and
\* the persisted log with their earlier value as a prefix.
C7_Step == IsPrefix(messages, messages') /\ IsPrefix(StoredLog, StoredLog')

C7_AppendOnly == [][C7_Step]_vars

\* ---------------------------------------------------------------------- C8
\* C8: activation of a missing or zero-length file fails without the engine
\* constructor being reached: no step of an initialize call on such a file
\* arrives at createFromOptions, creates an engine or sets isInitialized, and
\* when the call settles it has failed (for initModel: Failed, not Ready).
Loadable(f) == f.exists /\ f.len > 0

C8_Step ==
    \A t \in TaskIds :
        (tasks[t].op = "initialize" /\ ~Loadable(file) /\ tasks'[t] # tasks[t]) =>
            /\ tasks'[t].pc \in {"nLoadCheck", "back", "none"}
            /\ created' = created /\ engines' = engines /\ model' = model
            /\ tasks'[t].pc = "back" => tasks'[t].res \in {"notFound", "empty"}
            /\ tasks'[t].pc = "none" =>
                 /\ ~isInitialized'
                 /\ t \in ClientIds => tasks'[t].res \in {"notFound", "empty"}
                 /\ t = InitTask =>
                      /\ ~modelReady' /\ initPc' = "idle"
                      /\ downloadError' \in {Err("notFound", 0), Err("empty", 0)}

C8_InvalidArtifactNeverLoaded ==
    /\ [](\A t \in TaskIds : tasks[t].pc = "nLoadCreate" => Loadable(file))
    /\ [][C8_Step]_vars

\* initModel ended in Failed on a zero-length file, no engine ever created.
C8_Witness ==
    /\ mode = "app" /\ file = [exists |-> TRUE, len |-> 0]
    /\ Failed /\ downloadError = Err("empty", 0) /\ created = 0

\* ---------------------------------------------------------------------- C9
\* C9: generate on a live handle with an empty or whitespace-only prompt fails
\* with the empty-prompt error and nothing else happens: no request reaches
\* GemmaModule, the bridge and the message log are unchanged, and the persisted
\* log is not touched by the call (in sendMessage the step also completes the
\* save of the user's message that preceded the call).
C9_Call ==
    \A c \in ClientIds, p \in Texts, i \in Images \cup {NoImage} :
        (CallGenerateWith(c, p, i) /\ isInitialized /\ IsBlank(p)) =>
            /\ tasks'[c] = Settled("emptyPrompt")
            /\ \A t \in TaskIds \ {c} : tasks'[t] = tasks[t]
            /\ UNCHANGED <<jsVars, nativeVars, messages, storage>>

C9_Send ==
    \A s \in SendIds :
        (SendGenerate(s) /\ isInitialized /\ IsBlank(sends[s].input)) =>
            /\ tasks' = tasks
            /\ sends'[s] = EndedSend
            /\ storage' \in {storage, Saved(sends[s].updated)}
            /\ UNCHANGED <<jsVars, nativeVars, messages>>

C9_EmptyPromptFailsFast == [][C9_Call /\ C9_Send]_vars

\* A caller had a blank prompt refused while the engine was loaded.
C9_Witness ==
    \E c \in ClientIds :
        tasks[c].res = "emptyPrompt" /\ isInitialized /\ model \in engines

\* --------------------------------------------------------------------- C10
\* C10: when the remote source answers 401 the session becomes Failed with that
\* status as its reason and GemmaInference.initialize is not called; the only
\* step that leaves this state is the retry, which clears the reason and runs
\* the existence probe again.
Failed401 == Failed /\ downloadError = Err("status", 401)

C10_Step ==
    /\ DownloadRespondWith(401) =>
          /\ Failed401'
          /\ ~downloading'
          /\ tasks'[InitTask] = IdleTask
          /\ UNCHANGED <<jsVars, nativeVars, file>>
    /\ (Failed401 /\ <<initPc, downloadError, modelReady>>' #
                      <<initPc, downloadError, modelReady>>) =>
          /\ initPc' = "probe"
          /\ downloadError' = NoErr
          /\ ~modelReady'
          /\ tasks'[InitTask] = IdleTask

C10_AuthFailureThenRetry == [][C10_Step]_vars

\* The artifact is absent, the source has answered 401, nothing was activated.
C10_Witness == Failed401 /\ ~file.exists /\ created = 0 /\ ~isInitialized

\* --------------------------------------------------------------------- C11
\* C11: with the artifact absent and every declared byte delivered, the session
\* goes Uninitialized, CheckingArtifact, Downloading, Activating, Ready in that
\* order: a probe that finds no file is followed by Downloading with progress
\* 0, Downloading with all bytes written is left only for Activating and with
\* progress 100, and Activating is left for Ready exactly when the engine has
\* loaded. When the source and the engine behave, a download that has started
\* is followed by Ready.
C11_Step ==
    ReadinessState' # ReadinessState =>
        /\ ReadinessState = "Uninitialized" => ReadinessState' = "CheckingArtifact"
        /\ (ReadinessState = "CheckingArtifact" /\ ~file.exists) =>
              /\ ReadinessState' = "Downloading"
              /\ downloading' /\ downloadProgress' = Num(0)
        /\ (ReadinessState = "Downloading" /\ bytesWritten = ArtifactSize) =>
              /\ ReadinessState' = "Activating"
              /\ Complete(file)
              /\ downloadProgress = Num(100) /\ downloadProgress' = Num(100)
        /\ ReadinessState' = "Activating" =>
              ReadinessState \in {"CheckingArtifact", "Downloading"}
        /\ ReadinessState = "Activating" =>
              /\ ReadinessState' \in {"Ready", "Failed"}
              /\ ReadinessState' = "Ready" <=> isInitialized'
        /\ ReadinessState' = "Ready" => ReadinessState = "Activating"

C12_Step ==
    /\ (ReadinessState = "CheckingArtifact" /\ ReadinessState' = "Activating") =>
          /\ file.exists
          /\ tasks'[InitTask] = StartInitialize
          /\ UNCHANGED <<dlVars, fsVars, downloadError>>
    /\ (ReadinessState = "CheckingArtifact" /\ ReadinessState' = "Downloading") =>
          ~file.exists \/ env = "any"
    /\ ReadinessState \in {"CheckingArtifact", "Activating"} => ~downloading
    /\ ReadinessState = "Activating" =>
          /\ ReadinessState' \in {"Activating", "Ready", "Failed"}
          /\ UNCHANGED <<dlVars, fsVars>>

C12_PresentSkipsDownload == [][C12_Step]_vars

\* Ready in a session that never downloaded anything.
C12_Witness ==
    /\ ReadinessState = "Ready"
    /\ bytesWritten = 0 /\ totalBytes = 0 /\ downloadProgress = Num(0) /\ ~downloading

\* --------------------------------------------------------------------- C13
\* C13: no failure is retried automatically. A probe is started only by the
\* mount or, from Failed, by the retry command; while the session is Failed
\* every other step leaves initModel, the download state, the file and the
\* initialize call untouched; and the retry command is available only in
\* Failed, so each press starts one sequence.
C13_Step ==
    /\ (ReadinessState' = "CheckingArtifact" /\ ReadinessState # "CheckingArtifact") =>
          \/ ReadinessState = "Uninitialized"
          \/ ReadinessState = "Failed" /\ RetryDownload
    /\ ReadinessState = "Failed" =>
          \/ RetryDownload
          \/ UNCHANGED <<initPc, modelReady, downloadError, dlVars, fsVars,
                         jsVars, nativeVars>>
             /\ tasks'[InitTask] = tasks[InitTask]

C13_NoAutomaticRetry ==
    /\ [](RetryShown => ReadinessState = "Failed")
    /\ [][C13_Step]_vars

\* A retry was made, failed as well, and the session rests in Failed.
C13_Witness == ReadinessState = "Failed" /\ env = "good" /\ downloadError # NoErr

\* --------------------------------------------------------------------- C14
\* C14: a generation failure while Ready does not disturb readiness. In the
\* step in which a run of sendMessage ends without an answer, modelReady stays
\* true, no error is shown, no download is running, the handle is the same
\* live engine, and the log gets no assistant message.
GenerationFails(s) == sends[s].pc \in {"save1", "gen"} /\ sends'[s] = EndedSend

C14_Step ==
    \A s \in SendIds :
        (modelReady /\ GenerationFails(s)) =>
            /\ modelReady' /\ downloadError' = NoErr /\ ~downloading'
            /\ ReadinessState' = "Ready"
            /\ isInitialized' /\ model' = model /\ model' \in engines'
            /\ messages' = messages
            /\ ~loading'

C14_FailureKeepsReady == [][C14_Step]_vars

\* Ready, nothing in progress, and the last message is a user's message with
\* text that got no answer.
C14_Witness ==
    /\ ReadinessState = "Ready" /\ model \in engines
    /\ \A s \in SendIds : sends[s] \in {IdleSend, EndedSend}
    /\ messages # <<>>
    /\ LET last == messages[Len(messages)] IN
          last.sender = "user" /\ last.id > 0 /\ ~IsBlank(last.text)

\* --------------------------------------------------------------------- C15
\* C15: deactivation is idempotent. unload called while nothing is initialized
\* returns without error, without a call of GemmaModule and without changing
\* anything; unloadModel on a null handle closes nothing and does not fail; and
\* a completed unload leaves nothing initialized, so a second unload changes
\* nothing.
C15_Step ==
    \A c \in ClientIds :
        /\ (CallUnload(c) /\ ~isInitialized) =>
              /\ tasks'[c] = Settled("ok")
              /\ UNCHANGED <<jsVars, nativeVars>>
        /\ (UnloadClose(c) /\ model = NoHandle) =>
              /\ tasks'[c].pc = "nUnloadNull"
              /\ UNCHANGED <<jsVars, nativeVars>>
        /\ (tasks[c].op = "unload" /\ tasks'[c] = Settled("ok")) => ~isInitialized'

C15_UnloadIdempotent == [][C15_Step]_vars

\* unload has returned without error although no engine was ever loaded.
C15_Witness ==
    \E c \in ClientIds : tasks[c].res = "ok" /\ created = 0 /\ model = NoHandle

\* --------------------------------------------------------------------- C16
\* C16: a generation in flight uses the handle only while it is live: a request
\* that GemmaModule has accepted never finds `model` null when it reads it, and
\* the engine it runs on is not closed under it.
C16_HandleLiveWhileUsed ==
    \A t \in TaskIds :
        /\ tasks[t].pc \in {"nGen", "nImg"} => model # NoHandle
        /\ tasks[t].pc \in {"nGenRun", "nImgRun"} => tasks[t].eng \in engines

\* --------------------------------------------------------------------- C17
\* C17: once no generateWithImage call is between its decode and its answer,
\* no decoded bitmap remains unreleased.
C17_BitmapsReleased ==
    (\A t \in TaskIds : tasks[t].pc \notin {"nImg", "nImgRun", "nImgDone"}) => bitmaps = 0

\* --------------------------------------------------------------------- C18
\* C18: generate with an image path whose file does not exist fails with the
\* image-not-found error, before any decode and without the engine: the call
\* settles at the existence test with nothing else changed, and no request for
\* a missing image is ever decoded or run.
C18_Step ==
    \A t \in TaskIds :
        (tasks[t].pc = "imgExists" /\ tasks[t].image \notin ImageFiles
                                   /\ tasks'[t] # tasks[t]) =>
            /\ tasks'[t] = Kept(t, "imageNotFound")
            /\ UNCHANGED <<jsVars, nativeVars>>

C18_MissingImageFailsFirst ==
    /\ [](\A t \in TaskIds : tasks[t].pc = "nImgRun" => tasks[t].image \in ImageFiles)
    /\ [][C18_Step]_vars

\* A caller was refused for a missing image while the engine was loaded, and no
\* bitmap had been decoded.
C18_Witness ==
    \E c \in ClientIds :
        tasks[c].res = "imageNotFound" /\ model \in engines /\ bitmaps = 0

\* --------------------------------------------------------------------- C19
\* C19: the session stays in Downloading until the outcome of the download is
\* known: Downloading is left only for Activating when the transfer has
\* resolved with status 200 or for Failed with the error shown, and in both
\* cases no transfer is running any more; the downloading flag is set exactly
\* in Downloading; outside Downloading no transfer is running and no progress
\* event is in flight; within Downloading the bytesWritten applied by the
\* callback never decreases; and outside Downloading no progress value changes.
ProgressVars == <<downloadProgress, bytesWritten, totalBytes>>

C19_Step ==
    /\ (ReadinessState = "Downloading" /\ ReadinessState' # "Downloading") =>
          /\ transfer' = "none"
          /\ \/ /\ ReadinessState' = "Activating"
                /\ transfer = "body" /\ TransferEnds
             \/ ReadinessState' = "Failed" /\ downloadError' # NoErr
    /\ (ReadinessState = "Downloading" /\ ReadinessState' = "Downloading") =>
          bytesWritten' >= bytesWritten
    /\ (ReadinessState # "Downloading" /\ ReadinessState' # "Downloading") =>
          UNCHANGED ProgressVars
    /\ (ReadinessState # "Downloading" /\ ReadinessState' = "Downloading") =>
          bytesWritten' = 0 /\ downloadProgress' = Num(0)

C20_PercentInRange ==
    downloadProgress.kind = "number" /\ downloadProgress.value \in 0..100

\* --------------------------------------------------------------------- C21
\* C21: the ids of the messages in the log are pairwise distinct and increase
\* along the log.
C21_IdsDistinctIncreasing ==
    /\ \A i, j \in 1..Len(messages) : i # j => messages[i].id # messages[j].id
    /\ \A i \in 1..(Len(messages) - 1) : messages[i].id < messages[i + 1].id

\* --------------------------------------------------------------------- C22
\* The flags of App.tsx that are set: modelReady, downloading, a non-null
\* downloadError.
FlagsSet ==
    {f \in {"ready", "downloading", "error"} :
        \/ f = "ready" /\ modelReady
        \/ f = "downloading" /\ downloading
        \/ f = "error" /\ downloadError # NoErr}

\* C22: the flags encode one readiness state at a time: at most one of
\* modelReady, downloading and a non-null downloadError holds (so modelReady is
\* never true while downloading is true or downloadError is non-null), each of
\* them holds only in its own state (Ready, Downloading, Failed), and none
\* holds in the other states.
C22_OneReadinessState ==
    /\ Cardinality(FlagsSet) <= 1
    /\ modelReady <=> ReadinessState = "Ready"
    /\ downloading <=> ReadinessState = "Downloading"
    /\ downloadError # NoErr <=> ReadinessState = "Failed"

\* Ready after a failure, a retry and a download: only modelReady is set.
C22_Witness ==
    /\ modelReady /\ env = "good" /\ bytesWritten = ArtifactSize
    /\ FlagsSet = {"ready"}

\* --------------------------------------------------------------------- C23
\* C23: the log is persisted after every mutation: when messages of this
\* session are in the log and no run of sendMessage is in progress, the
\* sequence stored under 'messages' equals the in-memory log.
C23_PersistedEqualsLog ==
    (/\ \A s \in SendIds : sends[s] \in {IdleSend, EndedSend}
     /\ \E i \in 1..Len(messages) : messages[i].id > 0)
        => StoredLog = messages

\* --------------------------------------------------------------------- C24
\* C24: a download is started only after the probe did not answer true, and
\* when it reports success (initModel goes on to activate) the probe answers
\* true afterwards and the file at the canonical path holds exactly the bytes
\* the source declared, all of them reported as written.
C24_Step ==
    /\ (initPc = "probe" /\ initPc' = "dlDir") =>
           \/ ~file.exists
           \/ env = "any"
    /\ (initPc \in {"dlDir", "dlConnect", "dlXfer"} /\ initPc' = "activate") =>
           /\ file'.exists
           /\ file'.len = ArtifactSize
           /\ bytesWritten' = ArtifactSize
           /\ totalBytes' = ArtifactSize

C24_DownloadSuccessIsComplete == [][C24_Step]_vars

\* --------------------------------------------------------------------- C25
\* C25: the JS flag and the native handle agree at rest: when no call of
\* GemmaInference is in progress, isModelLoaded() is true exactly when
\* GemmaModule holds a non-null engine that has not been closed.
C25_FlagAgreesWithHandle ==
    (\A c \in ClientIds : tasks[c].pc = "none") =>
        (isInitialized <=> (model # NoHandle /\ model \in engines))

\* --------------------------------------------------------------------- C26
\* C26: every run of initModel terminates in Ready or Failed. As long as the
\* probe, the download and the engine load each return or throw, a session in
\* CheckingArtifact, Downloading or Activating eventually is Ready or Failed,
\* and a run that has ended without Ready shows a failure reason with the
\* retry button.
InProgress == ReadinessState \in {"CheckingArtifact", "Downloading", "Activating"}
Terminated == ReadinessState \in {"Ready", "Failed"}

C26_InitModelTerminates ==
    /\ [](InProgress => <>Terminated)
    /\ [](ReadinessState = "Failed" => downloadError # NoErr /\ RetryShown)

\* A run that ended in Failed on the answer of the source.
C26_Witness ==
    /\ ReadinessState = "Failed"
    /\ downloadError = Err("status", 500)
    /\ RetryShown

\* --------------------------------------------------------------------- C27
\* C27: at most one initModel sequence is in progress at any time, whatever
\* retries are pressed. The engine load of initModel runs only in Activating,
\* never beside a download; a retry is issued only from Failed, with no
\* download and no engine load of the previous sequence left; the file at the
\* canonical path is written only by the one running download; and a load is
\* started only when none is in progress.
InitLoadRunning == tasks[InitTask].pc # "none"

C27_Step ==
    /\ RetryDownload =>
          /\ ReadinessState = "Failed"
          /\ ~downloading
          /\ ~InitLoadRunning
    /\ file' # file => initPc \in {"dlConnect", "dlXfer"} /\ downloading
    /\ (InitLoadRunning' /\ ~InitLoadRunning) =>
          /\ initPc \in {"probe", "dlXfer"}
          /\ initPc' = "activate"

C27_OneInitModelSequence ==
    /\ [](InitLoadRunning => initPc = "activate" /\ ~downloading)
    /\ [][C27_Step]_vars

\* The download of a sequence started by a retry.
C27_Witness ==
    /\ initPc = "dlXfer" /\ env = "good"
    /\ downloading /\ ~InitLoadRunning

\* --------------------------------------------------------------------- C28
\* C28: every accepted send is followed by one engine invocation and, when the
\* engine succeeds, by one assistant message appended directly after the log
\* as it stood at the send, also for a send with an image and a blank text.
\* A run of sendMessage that leaves its first save has its generate call in
\* progress towards the engine, and a run whose generate call succeeded has
\* the log of the send plus one assistant message.
C28_Step ==
    \A s \in SendIds :
        /\ (sends[s].pc = "save1" /\ sends'[s].pc # "save1") =>
              /\ sends'[s].pc = "gen"
              /\ tasks'[s].op = "generate"
              /\ tasks'[s].pc # "none"
        /\ (sends[s].pc = "gen" /\ sends'[s].pc = "save2") =>
              /\ Len(messages') = Len(sends[s].updated) + 1
              /\ IsPrefix(sends[s].updated, messages')
              /\ messages'[Len(messages')].sender # "user"

C28_AcceptedSendInvokesEngine == [][C28_Step]_vars

\* --------------------------------------------------------------------- C29
\* C29: the loading flag is true exactly while a generation is outstanding:
\* it is true whenever a run of sendMessage is waiting for
\* GemmaInference.generate, and when it is true some run is waiting for the
\* answer or storing it.
C29_LoadingWhileOutstanding ==
    /\ (\E s \in SendIds : sends[s].pc = "gen") => loading
    /\ loading => \E s \in SendIds : sends[s].pc \in {"gen", "save2"}

====
